---- MODULE Spec2Model ----
(***************************************************************************)
(* State-machine model of the gitleaks action: the run controller of       *)
(* src/src/main.ts (run, performScan, generateSummary, handleScanResult)   *)
(* and the provisioner, scan executor and pull-request reporter of         *)
(* src/src/scanner.ts (Install, Latest, Scan, ScanPullRequest,             *)
(* postPullRequestComments).                                               *)
(*                                                                         *)
(* Strings the code takes apart or puts together are sequences of          *)
(* segments: a segment is a one-character string where the code looks at   *)
(* single characters ("v", ":", digits) and a fixed piece of text          *)
(* otherwise.  Concatenation is \o, so joins and prefixes behave as they   *)
(* do on the real strings.                                                 *)
(*                                                                         *)
(* The licensing gate validateSubscription (main.ts 8-36) runs before the  *)
(* pipeline and is outside of it; a run of the model starts after it.      *)
(***************************************************************************)
EXTENDS Integers, Sequences, FiniteSets, TLC

(***************************************************************************)
(* Bounds of the model.                                                    *)
(***************************************************************************)
\* longest structured report (number of results)
MaxFindings == 2
\* entries in one page of a listing of the REST API (the default is 30;
\* scaled down together with the lists the model holds)
PerPage == 1
\* longest filePath / ruleId of the fingerprint specification
MaxFieldLen == 2

(***************************************************************************)
(* Program constants.                                                      *)
(***************************************************************************)
\* scanner.ts EXIT_CODES / main.ts EXIT_CODES, EXIT_STATUS
EXIT_CODE_SUCCESS == 0
EXIT_CODE_ERROR == 1
EXIT_CODE_LEAKS_DETECTED == 2
EXIT_STATUS_SUCCESS == 0
EXIT_STATUS_LEAKS_DETECTED == 1
\* process.exit(1): configuration errors and the top-level catch
EXIT_FAILURE == 1

DEFAULT_GITLEAKS_VERSION == <<"8.24.3">>
LATEST == <<"latest">>

EVENT_PUSH == "push"
EVENT_PULL_REQUEST == "pull_request"
EVENT_WORKFLOW_DISPATCH == "workflow_dispatch"
EVENT_SCHEDULE == "schedule"
SUPPORTED_EVENTS ==
    {EVENT_PUSH, EVENT_PULL_REQUEST, EVENT_WORKFLOW_DISPATCH, EVENT_SCHEDULE}

(***************************************************************************)
(* Input sets.                                                             *)
(***************************************************************************)
\* GITHUB_EVENT_NAME: the supported events and one that is not
EventNames == SUPPORTED_EVENTS \cup {"issues"}
\* GITLEAKS_VERSION: unset, the literal latest, a concrete version that
\* happens to start with v
VersionEnvs == {<<>>, LATEST, <<"v", "8.30.0">>}
\* tag_name of the upstream latest release
ReleaseTags == {<<"v", "8.30.0">>, <<"8.30.0">>}
\* commit identifiers of the repository clone
Commits == {"c1", "c2"}
\* BASE_REF: unset or a commit identifier
BaseRefEnvs == {"", "c2"}
\* exit codes of the engine process
EngineExitCodes == {0, 1, 2, 3}
\* GITLEAKS_NOTIFY_USER_LIST: unset or a mention list
UserLists == {<<>>, <<"@alice">>}

\* commit lists: sequences of distinct commits (a push list, a listing of
\* the commits of a pull request)
CommitLists ==
    {<<>>} \cup {<<c>> : c \in Commits}
           \cup {p \in Commits \X Commits : p[1] # p[2]}

(***************************************************************************)
(* Strings.                                                                *)
(***************************************************************************)
Digit(d) == CASE d = 0 -> "0" [] d = 1 -> "1" [] d = 2 -> "2" [] d = 3 -> "3"
              [] d = 4 -> "4" [] d = 5 -> "5" [] d = 6 -> "6" [] d = 7 -> "7"
              [] d = 8 -> "8" [] d = 9 -> "9"

\* Number.prototype.toString() of a non-negative integer
RECURSIVE NumberToString(_)
NumberToString(n) ==
    IF n < 10 THEN <<Digit(n)>>
    ELSE NumberToString(n \div 10) \o <<Digit(n % 10)>>

\* all strings of 1..n segments over the alphabet
RECURSIVE StringsUpTo(_, _)
StringsUpTo(alphabet, n) ==
    IF n = 0 THEN {}
    ELSE LET shorter == StringsUpTo(alphabet, n - 1)
         IN  {<<a>> : a \in alphabet} \cup shorter
               \cup {s \o <<a>> : s \in shorter, a \in alphabet}

(***************************************************************************)
(* Findings and review comments.                                           *)
(***************************************************************************)
\* a result of the structured report, reduced to the fields the code reads
Finding(rule, sha, path, line) ==
    [ruleId |-> rule, commitSha |-> sha, filePath |-> path, startLine |-> line]

\* results the engine reports in the bounded runs: the same secret location
\* on two lines of one file
FindingPool ==
    {Finding(<<"aws-key">>, <<"bbb2222">>, <<"config.yml">>, 12),
     Finding(<<"aws-key">>, <<"bbb2222">>, <<"config.yml">>, 3)}

\* a fingerprint that leaves the line out
buildSecretFingerprintNoLine(result) ==
    result.commitSha \o <<":">> \o result.filePath \o <<":">> \o result.ruleId

\* scanner.ts buildSecretFingerprint: commitSha:filePath:ruleId:line
buildSecretFingerprint(result) ==
    result.commitSha \o <<":">> \o result.filePath \o <<":">>
        \o result.ruleId \o <<":">> \o NumberToString(result.startLine)

\* scanner.ts buildCommentBody
buildCommentBody(result, fingerprint, userList) ==
    <<"Gitleaks has detected a secret with rule-id ">> \o result.ruleId
        \o <<" in commit ">> \o result.commitSha
        \o <<". If true positive rotate; if false positive: echo ">>
        \o fingerprint \o <<" >> .gitleaksignore">>
        \o (IF userList # <<>> THEN <<"cc ">> \o userList ELSE <<>>)

\* scanner.ts buildReviewComment (owner, repo and pull number are those of
\* the one pull request of the model)
buildReviewComment(result, userList) ==
    [owner |-> "owner", repo |-> "repo", pull_number |-> 1,
     body |-> buildCommentBody(result, buildSecretFingerprint(result), userList),
     commit_id |-> result.commitSha,
     path |-> result.filePath,
     side |-> "RIGHT",
     line |-> result.startLine]

\* an isCommentDuplicate that takes the listed line as counted from 0
isCommentDuplicateOffByOne(existingComment, proposedComment) ==
    /\ existingComment.body = proposedComment.body
    /\ existingComment.path = proposedComment.path
    /\ existingComment.original_line + 1 = proposedComment.line

\* scanner.ts isCommentDuplicate
isCommentDuplicate(existingComment, proposedComment) ==
    /\ existingComment.body = proposedComment.body
    /\ existingComment.path = proposedComment.path
    /\ existingComment.original_line = proposedComment.line

\* scanner.ts commentAlreadyExists
commentAlreadyExists(existingComments, proposedComment) ==
    \E i \in 1..Len(existingComments) :
        isCommentDuplicate(existingComments[i], proposedComment)

\* what the listing returns for a comment created by createReviewComment:
\* the review comment keeps the line it was created on as original_line
StoredComment(comment) ==
    [body |-> comment.body, path |-> comment.path, original_line |-> comment.line]

\* GET /repos/{owner}/{repo}/pulls/{pull_number}/comments as requested by
\* fetchExistingComments: one request, no page parameters, so the response
\* is the first page of the review comments in creation order
ListReviewComments(stored) ==
    SubSeq(stored, 1, IF Len(stored) < PerPage THEN Len(stored) ELSE PerPage)

(***************************************************************************)
(* Version, install path, scan range.                                      *)
(***************************************************************************)
\* a Latest that returns the tag as it is
KeepVersionPrefix(tag) == tag

\* scanner.ts Latest: tag_name.replace(/^v/, "")
StripVersionPrefix(tag) ==
    IF Len(tag) > 0 /\ Head(tag) = "v" THEN Tail(tag) ELSE tag

\* main.ts parseEnvironmentConfig: process.env.GITLEAKS_VERSION || DEFAULT
ConfigVersion(versionEnv) ==
    IF versionEnv = <<>> THEN DEFAULT_GITLEAKS_VERSION ELSE versionEnv

\* scanner.ts getInstallPath
getInstallPath(version) == <<"tmpdir/gitleaks-">> \o version

\* "undefined": the value of a field the object does not have
Undefined == "undefined"

\* main.ts performScan: scanParams of the pull-request, manual and
\* scheduled triggers carry no refs
NoRefs == [baseRef |-> Undefined, headRef |-> Undefined]

\* scanner.ts buildScanInfoFromCommits, for a non-empty commit list
\* (commits[0] of an empty list is undefined and the property read throws)
buildScanInfoFromCommits(commits, baseRefOverride) ==
    [baseRef |-> IF baseRefOverride # "" THEN baseRefOverride ELSE commits[1],
     headRef |-> commits[Len(commits)]]

\* a buildPushScanInfo that does not look at the override
buildPushScanInfoNoOverride(commits, baseRefOverride) ==
    [baseRef |-> commits[1], headRef |-> commits[Len(commits)]]

\* main.ts buildPushScanInfo, for a non-empty commit list
buildPushScanInfo(commits, baseRefOverride) ==
    [baseRef |-> IF baseRefOverride # "" THEN baseRefOverride ELSE commits[1],
     headRef |-> commits[Len(commits)]]

\* a buildGitLogOptions without the test for equal refs
buildGitLogOptionsAlwaysRange(info, evType) ==
    IF evType = "push" \/ evType = "pull_request"
    THEN [present |-> TRUE,
          expr |-> <<"--no-merges --first-parent ", info.baseRef,
                     "^..", info.headRef>>]
    ELSE [present |-> FALSE, expr |-> <<>>]

\* scanner.ts buildGitLogOptions: null, "-1" or the range expression
NoLogOpts == [present |-> FALSE, expr |-> <<>>]
buildGitLogOptions(info, evType) ==
    IF evType = EVENT_PUSH \/ evType = EVENT_PULL_REQUEST
    THEN IF info.baseRef = info.headRef
         THEN [present |-> TRUE, expr |-> <<"-1">>]
         ELSE [present |-> TRUE,
               expr |-> <<"--no-merges --first-parent ", info.baseRef,
                          "^..", info.headRef>>]
    ELSE NoLogOpts

\* scanner.ts buildScanCommand 226-234: the command and its fixed flags
FIXED_ARGS ==
    <<<<"detect">>, <<"--redact">>, <<"-v">>, <<"--exit-code=", "2">>,
      <<"--report-format=", "sarif">>, <<"--report-path=", "results.sarif">>,
      <<"--log-level=", "debug">>>>

\* a buildScanCommand that pushes the log-range flag for every trigger
buildScanCommandAlwaysLogOpts(info, evType) ==
    Append(FIXED_ARGS,
           <<"--log-opts=">> \o buildGitLogOptions(info, EVENT_PUSH).expr)

\* scanner.ts buildScanCommand: the fixed flags and, when buildGitLogOptions
\* returns an expression, the log-range flag
buildScanCommand(info, evType) ==
    LET opts == buildGitLogOptions(info, evType)
    IN  IF opts.present
        THEN Append(FIXED_ARGS, <<"--log-opts=">> \o opts.expr)
        ELSE FIXED_ARGS

\* scanner.ts fetchPullRequestCommits: one request without a page
\* parameter, answered with the first page of the pull request's commits,
\* oldest first
ListPullRequestCommits(all) ==
    SubSeq(all, 1, IF Len(all) < PerPage THEN Len(all) ELSE PerPage)

\* the commits a pull request may hold
PullRequestCommitLists == CommitLists \ {<<>>}

(***************************************************************************)
(* Exit handling.                                                          *)
(***************************************************************************)
\* the status the operating system reports for process.exit(code)
ProcessExit(code) == code % 256

\* a handleScanResult that ends every failing run with the generic status
handleScanResultGeneric(code) ==
    IF code = EXIT_STATUS_SUCCESS THEN EXIT_STATUS_SUCCESS
    ELSE ProcessExit(EXIT_FAILURE)

\* a handleScanResult that hands the leaks code of the engine through
handleScanResultRaw(code) == ProcessExit(code)

\* main.ts handleScanResult: the status the process ends with
handleScanResult(code) ==
    IF code = EXIT_STATUS_SUCCESS THEN EXIT_STATUS_SUCCESS
    ELSE IF code = EXIT_CODE_LEAKS_DETECTED
         THEN ProcessExit(EXIT_STATUS_LEAKS_DETECTED)
         ELSE ProcessExit(code)

(***************************************************************************)
(* Structured report (results.sarif) and its two parsers.                  *)
(***************************************************************************)
\* the file as the parsers can find it: absent, not JSON, JSON without
\* runs, JSON without runs[0].results, or JSON with a results array
ReportKinds == {"missing", "invalidJson", "noRuns", "noResults", "results"}
Report(kind, results) == [kind |-> kind, results |-> results]
\* the file before the engine of the first run has written it
NoReport == Report("unwritten", <<>>)

RECURSIVE SeqsUpTo(_, _)
SeqsUpTo(S, n) ==
    IF n = 0 THEN {<<>>}
    ELSE LET shorter == SeqsUpTo(S, n - 1)
         IN  shorter \cup {s \o <<x>> : s \in shorter, x \in S}

\* reports the engine can leave behind when it exits with the leaks code
EngineReports ==
    {Report(k, <<>>) : k \in ReportKinds \ {"results"}}
        \cup {Report("results", r) : r \in SeqsUpTo(FindingPool, MaxFindings)}

\* the result of a parser: null/undefined, or the results array
Null == [isNull |-> TRUE, results |-> <<>>]
Parsed(results) == [isNull |-> FALSE, results |-> results]

\* scanner.ts parseSarifFile: null when the file is absent or JSON.parse or
\* the read of runs[0] throws, undefined when results is absent
parseSarifFile(file) ==
    IF file.kind = "results" THEN Parsed(file.results) ELSE Null

\* main.ts parseSarifResults
parseSarifResults(file) ==
    IF file.kind = "results" THEN Parsed(file.results) ELSE Null

(***************************************************************************)
(* Review comments on the pull request before the first run.               *)
(***************************************************************************)
\* comments a person or an earlier run may have left: the comment of the
\* first pool finding as this run would build it, and the same text on the
\* same file anchored to another line
PriorComments(userList) ==
    LET f == Finding(<<"aws-key">>, <<"bbb2222">>, <<"config.yml">>, 12)
        c == StoredComment(buildReviewComment(f, userList))
    IN  {c, [c EXCEPT !.original_line = 40]}

\* the review comments already on the pull request before the first run,
\* oldest first: none, one of either kind, or one of each in either order
InitialStores(userList) ==
    {<<>>}
        \cup {<<c>> : c \in PriorComments(userList)}
        \cup {p \in PriorComments(userList) \X PriorComments(userList) :
                 p[1] # p[2]}

(***************************************************************************)
(* State.                                                                  *)
(***************************************************************************)
VARIABLES
    \* environment of the run (process.env, the event file)
    eventType,        \* GITHUB_EVENT_NAME
    versionEnv,       \* GITLEAKS_VERSION
    baseRefEnv,       \* BASE_REF ("" when unset)
    enableSummary,    \* GITLEAKS_ENABLE_SUMMARY
    enableUpload,     \* GITLEAKS_ENABLE_UPLOAD_ARTIFACT
    hasToken,         \* GITHUB_TOKEN is set
    commentsEnabled,  \* GITLEAKS_ENABLE_COMMENTS # "false"
    userList,         \* GITLEAKS_NOTIFY_USER_LIST
    pushCommits,      \* eventData.commits
    pullRequest,      \* eventData.pull_request
    \* the run
    pc,               \* position of run()
    version,          \* resolved engine version
    latestTag,        \* tag_name returned by the latest-release lookup
    searchPath,       \* directories core.addPath appended
    downloads,        \* downloadTool calls of this run
    steps,            \* local steps of the run with their outcome, in order
    scanInfo,         \* refs handed to Scan
    prCommits,        \* commits of the pull request, once they are listed
    engineArgs,       \* arguments of the engine's command line
    engineCalls,      \* exec.exec("gitleaks") calls of this run
    logOpts,          \* log-range expression handed to the engine
    exitCode,         \* exit code of the engine
    secrets,          \* postPullRequestComments: parsed results
    existingComments, \* postPullRequestComments: fetched comments
    next,             \* postPullRequestComments: index of the next result
    attempts,         \* createReviewComment calls: [index, comment, ok]
    created,          \* comments created by this run
    apiLog,           \* remote API requests of this run, in order
    summary,          \* what core.summary wrote
    exitStatus,       \* exit status of the process, -1 while it runs
    exitVia,          \* the statement that ended the process
    thrown,           \* the call whose failure reached run().catch
    \* the world outside the run
    report,           \* results.sarif
    prComments,       \* review comments of the pull request, oldest first
    storeSeen,        \* the pull request's comments have been looked at
    rerun,            \* this is the second run on the same pull request
    first,            \* what the first run's reporter did
    \* fingerprint specification
    fp,
    \* concurrent-install specification: the host two runs share
    host

envVars == <<eventType, versionEnv, baseRefEnv, enableSummary, enableUpload,
             hasToken, commentsEnabled, userList, pushCommits, pullRequest>>
installVars == <<version, latestTag, searchPath, downloads, steps>>
scanVars == <<scanInfo, prCommits, engineArgs, engineCalls, logOpts, exitCode>>
commentVars == <<secrets, existingComments, next, attempts, created>>
endVars == <<summary, exitStatus, exitVia, thrown>>
worldVars == <<report, prComments, storeSeen, rerun, first>>
vars == <<envVars, pc, installVars, scanVars, commentVars, apiLog, endVars,
          worldVars, fp, host>>

NoSummary == [kind |-> "none", detail |-> 0]
NoPullRequest == [present |-> FALSE, base |-> Undefined, head |-> Undefined]
PullRequestPayloads ==
    {NoPullRequest,
     [present |-> TRUE, base |-> "c1", head |-> "c2"],
     [present |-> TRUE, base |-> "c2", head |-> "c2"]}
NoFirst == [listed |-> FALSE, attempts |-> <<>>, created |-> <<>>]
FpIdle == [phase |-> "idle"]
HostIdle == [phase |-> "idle"]

\* the state of a process that has just started
RunStart ==
    /\ pc = "validateEventType"
    /\ version = <<>>
    /\ latestTag = <<>>
    /\ searchPath = <<>>
    /\ downloads = 0
    /\ steps = <<>>
    /\ scanInfo = NoRefs
    /\ prCommits = <<>>
    /\ engineArgs = <<>>
    /\ engineCalls = 0
    /\ logOpts = NoLogOpts
    /\ exitCode = -1
    /\ secrets = Null
    /\ existingComments = <<>>
    /\ next = 0
    /\ attempts = <<>>
    /\ created = <<>>
    /\ apiLog = <<>>
    /\ summary = NoSummary
    /\ exitStatus = -1
    /\ exitVia = "running"
    /\ thrown = "none"

\* the environment: what no trigger reads is left at its default
Environment ==
    /\ eventType \in EventNames
    /\ versionEnv \in VersionEnvs
    /\ baseRefEnv \in BaseRefEnvs
    /\ enableSummary \in BOOLEAN
    /\ enableUpload \in BOOLEAN
    /\ IF eventType = EVENT_PUSH
       THEN pushCommits \in CommitLists
       ELSE pushCommits = <<>>
    /\ IF eventType = EVENT_PULL_REQUEST
       THEN /\ pullRequest \in PullRequestPayloads
            /\ hasToken \in BOOLEAN
            /\ commentsEnabled \in BOOLEAN
            /\ userList \in UserLists
       ELSE /\ pullRequest = NoPullRequest
            /\ hasToken = TRUE
            /\ commentsEnabled = TRUE
            /\ userList = <<>>

Init ==
    /\ Environment
    /\ RunStart
    /\ report = NoReport
    /\ prComments = <<>>
    /\ storeSeen = FALSE
    /\ rerun = FALSE
    /\ first = NoFirst
    /\ fp = FpIdle
    /\ host = HostIdle

(***************************************************************************)
(* Ways a run ends.                                                        *)
(***************************************************************************)
\* process.exit(status) at the named statement
Exit(status, via) ==
    /\ pc' = "exited"
    /\ exitStatus' = ProcessExit(status)
    /\ exitVia' = via
    /\ UNCHANGED <<summary, thrown>>

\* a rejected await or a thrown error of the named call reaches
\* run().catch: process.exit(1)
Throw(what) ==
    /\ pc' = "exited"
    /\ exitStatus' = ProcessExit(EXIT_FAILURE)
    /\ exitVia' = "catch"
    /\ thrown' = what
    /\ UNCHANGED summary

Goto(label) ==
    /\ pc' = label
    /\ UNCHANGED endVars

Count(log, what) == Cardinality({i \in 1..Len(log) : log[i] = what})

(***************************************************************************)
(* main.ts run(): validation, event data, version.                         *)
(***************************************************************************)
\* main.ts validateEventType
ValidateEventType ==
    /\ pc = "validateEventType"
    /\ IF eventType \in SUPPORTED_EVENTS
       THEN Goto("loadEventData")
       ELSE Exit(EXIT_FAILURE, "validateEventType")
    /\ UNCHANGED <<envVars, installVars, scanVars, commentVars, apiLog,
                   worldVars, fp, host>>

\* main.ts loadEventData: the event file is read and parsed, or the
\* process exits
LoadEventData ==
    /\ pc = "loadEventData"
    /\ \/ Goto("resolveVersion")
       \/ Exit(EXIT_FAILURE, "loadEventData")
    /\ UNCHANGED <<envVars, installVars, scanVars, commentVars, apiLog,
                   worldVars, fp, host>>

\* main.ts resolveGitleaksVersion: whether the lookup is made
NeedsLatestLookup(cfgVersion) == cfgVersion = LATEST

\* main.ts resolveGitleaksVersion with scanner.ts Latest: the version
\* handed to Install
resolveGitleaksVersion(cfgVersion, tag) ==
    IF NeedsLatestLookup(cfgVersion) THEN StripVersionPrefix(tag) ELSE cfgVersion

ResolveGitleaksVersion ==
    /\ pc = "resolveVersion"
    /\ LET cfg == ConfigVersion(versionEnv)
       IN  IF NeedsLatestLookup(cfg)
           THEN /\ apiLog' = Append(apiLog, "getLatestRelease")
                /\ \/ \E tag \in ReleaseTags :
                        /\ latestTag' = tag
                        /\ version' = resolveGitleaksVersion(cfg, tag)
                        /\ Goto("restoreCache")
                   \/ /\ Throw("getLatestRelease")
                      /\ UNCHANGED <<latestTag, version>>
           ELSE /\ version' = resolveGitleaksVersion(cfg, latestTag)
                /\ Goto("restoreCache")
                /\ UNCHANGED <<latestTag, apiLog>>
    /\ UNCHANGED <<envVars, searchPath, downloads, steps, scanVars,
                   commentVars, worldVars, fp, host>>

(***************************************************************************)
(* scanner.ts Install.                                                     *)
(***************************************************************************)
\* a tryRestoreFromCache whose error is taken for a hit
TryRestoreFromCacheErrorAsHit ==
    /\ pc = "restoreCache"
    /\ \E outcome \in {"hit", "miss", "error"} :
          /\ steps' = Append(steps, <<"restoreCache", outcome>>)
          /\ IF outcome = "miss" THEN Goto("download") ELSE Goto("addPath")
    /\ UNCHANGED <<envVars, version, latestTag, searchPath, downloads,
                   scanVars, commentVars, apiLog, worldVars, fp, host>>

\* tryRestoreFromCache: a hit, a miss, or an error that counts as a miss
TryRestoreFromCache ==
    /\ pc = "restoreCache"
    /\ \E outcome \in {"hit", "miss", "error"} :
          /\ steps' = Append(steps, <<"restoreCache", outcome>>)
          /\ IF outcome = "hit" THEN Goto("addPath") ELSE Goto("download")
    /\ UNCHANGED <<envVars, version, latestTag, searchPath, downloads,
                   scanVars, commentVars, apiLog, worldVars, fp, host>>

\* a downloadBinary that tries a second time after a failure
DownloadBinaryRetries ==
    /\ pc = "download"
    /\ downloads' = downloads + 1
    /\ \/ /\ steps' = Append(steps, <<"download", "ok">>)
          /\ Goto("extract")
       \/ /\ steps' = Append(steps, <<"download", "error">>)
          /\ IF downloads = 0 THEN Goto("download")
             ELSE Throw("downloadBinary")
    /\ UNCHANGED <<envVars, version, latestTag, searchPath, scanVars,
                   commentVars, apiLog, worldVars, fp, host>>

\* downloadBinary: the error is logged and thrown again
DownloadBinary ==
    /\ pc = "download"
    /\ downloads' = downloads + 1
    /\ \/ /\ steps' = Append(steps, <<"download", "ok">>)
          /\ Goto("extract")
       \/ /\ steps' = Append(steps, <<"download", "error">>)
          /\ Throw("downloadBinary")
    /\ UNCHANGED <<envVars, version, latestTag, searchPath, scanVars,
                   commentVars, apiLog, worldVars, fp, host>>

\* extractArchive: buildReleaseUrl always names a .tar.gz, so extractTar
ExtractArchive ==
    /\ pc = "extract"
    /\ \/ /\ steps' = Append(steps, <<"extract", "ok">>)
          /\ Goto("saveCache")
       \/ /\ steps' = Append(steps, <<"extract", "error">>)
          /\ Throw("extractArchive")
    /\ UNCHANGED <<envVars, version, latestTag, searchPath, downloads,
                   scanVars, commentVars, apiLog, worldVars, fp, host>>

\* a trySaveToCache that lets the failure of saveCache through
TrySaveToCacheFatal ==
    /\ pc = "saveCache"
    /\ \/ /\ steps' = Append(steps, <<"saveCache", "ok">>)
          /\ Goto("addPath")
       \/ /\ steps' = Append(steps, <<"saveCache", "error">>)
          /\ Throw("saveCache")
    /\ UNCHANGED <<envVars, version, latestTag, searchPath, downloads,
                   scanVars, commentVars, apiLog, worldVars, fp, host>>

\* trySaveToCache: a failure is logged and swallowed
TrySaveToCache ==
    /\ pc = "saveCache"
    /\ \E outcome \in {"ok", "error"} :
          steps' = Append(steps, <<"saveCache", outcome>>)
    /\ Goto("addPath")
    /\ UNCHANGED <<envVars, version, latestTag, searchPath, downloads,
                   scanVars, commentVars, apiLog, worldVars, fp, host>>

\* Install: core.addPath(installPath); return installPath
AddPath ==
    /\ pc = "addPath"
    /\ searchPath' = Append(searchPath, getInstallPath(version))
    /\ steps' = Append(steps, <<"addPath", "ok">>)
    /\ Goto("performScan")
    /\ UNCHANGED <<envVars, version, latestTag, downloads, scanVars,
                   commentVars, apiLog, worldVars, fp, host>>

(***************************************************************************)
(* main.ts performScan and the scan range.                                 *)
(***************************************************************************)
\* a performScan for push that scans the whole repository when the push
\* carries no commits
PerformScanPushEmptyScans ==
    /\ pc = "performScan"
    /\ eventType = EVENT_PUSH
    /\ scanInfo' = IF Len(pushCommits) = 0 THEN NoRefs
                   ELSE buildPushScanInfo(pushCommits, baseRefEnv)
    /\ Goto("exec")
    /\ UNCHANGED <<envVars, installVars, prCommits, engineArgs, engineCalls,
                   logOpts, exitCode, commentVars, apiLog, worldVars, fp, host>>

\* push: buildPushScanInfo, then executeScan
PerformScanPush ==
    /\ pc = "performScan"
    /\ eventType = EVENT_PUSH
    /\ IF Len(pushCommits) = 0
       THEN /\ Exit(EXIT_STATUS_SUCCESS, "buildPushScanInfo")
            /\ UNCHANGED scanInfo
       ELSE /\ scanInfo' = buildPushScanInfo(pushCommits, baseRefEnv)
            /\ Goto("exec")
    /\ UNCHANGED <<envVars, installVars, prCommits, engineArgs, engineCalls,
                   logOpts, exitCode, commentVars, apiLog, worldVars, fp, host>>

\* workflow_dispatch and schedule: scanParams without refs
PerformScanFull ==
    /\ pc = "performScan"
    /\ eventType \in {EVENT_WORKFLOW_DISPATCH, EVENT_SCHEDULE}
    /\ scanInfo' = NoRefs
    /\ Goto("exec")
    /\ UNCHANGED <<envVars, installVars, prCommits, engineArgs, engineCalls,
                   logOpts, exitCode, commentVars, apiLog, worldVars, fp, host>>

\* a validateGitHubToken that only logs the missing token
ValidateGitHubTokenLenient ==
    /\ pc = "performScan"
    /\ eventType = EVENT_PULL_REQUEST
    /\ Goto("scanRange")
    /\ UNCHANGED <<envVars, installVars, scanVars, commentVars, apiLog,
                   worldVars, fp, host>>

\* pull_request: ScanPullRequest starts with validateGitHubToken
ValidateGitHubToken ==
    /\ pc = "performScan"
    /\ eventType = EVENT_PULL_REQUEST
    /\ IF hasToken
       THEN Goto("scanRange")
       ELSE Exit(EXIT_FAILURE, "validateGitHubToken")
    /\ UNCHANGED <<envVars, installVars, scanVars, commentVars, apiLog,
                   worldVars, fp, host>>

\* ScanPullRequest 427-444: the range from BASE_REF and the fetched commit
\* list, from the payload, or from the fetched commit list alone
PullRequestScanRange ==
    /\ pc = "scanRange"
    /\ IF baseRefEnv = "" /\ pullRequest.present
       THEN /\ scanInfo' = [baseRef |-> pullRequest.base,
                            headRef |-> pullRequest.head]
            /\ Goto("exec")
            /\ UNCHANGED <<apiLog, prCommits>>
       ELSE /\ apiLog' = Append(apiLog, "listCommits")
            /\ \/ \E all \in PullRequestCommitLists :
                     /\ prCommits' = all
                     /\ scanInfo' = buildScanInfoFromCommits(
                                        ListPullRequestCommits(all), baseRefEnv)
                     /\ Goto("exec")
               \/ \* the request fails, or the list is empty and the read
                  \* of commits[0].sha / commits[-1].sha throws
                  /\ Throw("listCommits")
                  /\ UNCHANGED <<scanInfo, prCommits>>
    /\ UNCHANGED <<envVars, installVars, engineArgs, engineCalls, logOpts,
                   exitCode, commentVars, worldVars, fp, host>>

(***************************************************************************)
(* scanner.ts Scan.                                                        *)
(***************************************************************************)
\* a Scan that runs the engine a second time
ExecGitleaksRepeats ==
    /\ pc = "exec"
    /\ engineCalls' = engineCalls + 1
    /\ engineArgs' = buildScanCommand(scanInfo, eventType)
    /\ logOpts' = buildGitLogOptions(scanInfo, eventType)
    /\ \E code \in EngineExitCodes :
          /\ exitCode' = code
          /\ IF code = EXIT_CODE_LEAKS_DETECTED /\ report = NoReport
             THEN report' \in EngineReports
             ELSE report' = report
    /\ Goto(IF engineCalls = 0 THEN "exec" ELSE "upload")
    /\ UNCHANGED <<envVars, installVars, scanInfo, prCommits, commentVars,
                   apiLog, prComments, storeSeen, rerun, first, fp, host>>

\* exec.exec("gitleaks", args, {ignoreReturnCode}): the engine runs and
\* leaves its report.  The report is a function of the scanned commits: a
\* second run on the same commits finds the report of the first.  Only a
\* run that exits with the leaks code reads the report.
ExecGitleaks ==
    /\ pc = "exec"
    /\ engineCalls' = engineCalls + 1
    /\ engineArgs' = buildScanCommand(scanInfo, eventType)
    /\ logOpts' = buildGitLogOptions(scanInfo, eventType)
    /\ \E code \in EngineExitCodes :
          /\ exitCode' = code
          /\ IF code = EXIT_CODE_LEAKS_DETECTED /\ report = NoReport
             THEN report' \in EngineReports
             ELSE report' = report
    /\ Goto("upload")
    /\ UNCHANGED <<envVars, installVars, scanInfo, prCommits, commentVars,
                   apiLog, prComments, storeSeen, rerun, first, fp, host>>

\* Scan 282-286: the upload is awaited without a handler, then the exit
\* code is returned to ScanPullRequest or to performScan
UploadScanArtifact ==
    /\ pc = "upload"
    /\ IF enableUpload
       THEN \/ /\ steps' = Append(steps, <<"upload", "ok">>)
               /\ Goto(IF eventType = EVENT_PULL_REQUEST THEN "comments"
                       ELSE "summary")
            \/ /\ steps' = Append(steps, <<"upload", "error">>)
               /\ Throw("uploadArtifact")
       ELSE /\ Goto(IF eventType = EVENT_PULL_REQUEST THEN "comments"
                    ELSE "summary")
            /\ UNCHANGED steps
    /\ UNCHANGED <<envVars, version, latestTag, searchPath, downloads,
                   scanVars, commentVars, apiLog, worldVars, fp, host>>

(***************************************************************************)
(* scanner.ts ScanPullRequest 448-450 and postPullRequestComments.         *)
(***************************************************************************)
\* a ScanPullRequest that calls postPullRequestComments whatever
\* GITLEAKS_ENABLE_COMMENTS says
PostPullRequestCommentsUngated ==
    /\ pc = "comments"
    /\ LET parsed == parseSarifFile(report)
       IN  IF \/ exitCode # EXIT_CODE_LEAKS_DETECTED
              \/ parsed.isNull
              \/ Len(parsed.results) = 0
           THEN /\ Goto("summary")
                /\ UNCHANGED <<commentVars, apiLog, prComments, storeSeen>>
           ELSE /\ apiLog' = Append(apiLog, "listComments")
                /\ \/ /\ \E stored \in (IF storeSeen THEN {prComments}
                                        ELSE InitialStores(userList)) :
                            /\ prComments' = stored
                            /\ existingComments' = ListReviewComments(stored)
                      /\ storeSeen' = TRUE
                      /\ secrets' = parsed
                      /\ next' = 1
                      /\ Goto("posting")
                      /\ UNCHANGED <<attempts, created>>
                   \/ /\ Throw("listComments")
                      /\ UNCHANGED <<commentVars, prComments, storeSeen>>
    /\ UNCHANGED <<envVars, installVars, scanVars, report, rerun, first, fp, host>>

\* shouldPostComments, then postPullRequestComments up to the loop: the
\* exit-code guard, parseSarifFile, fetchExistingComments
PostPullRequestComments ==
    /\ pc = "comments"
    /\ LET parsed == parseSarifFile(report)
       IN  IF \/ ~commentsEnabled
              \/ exitCode # EXIT_CODE_LEAKS_DETECTED
              \/ parsed.isNull
              \/ Len(parsed.results) = 0
           THEN /\ Goto("summary")
                /\ UNCHANGED <<commentVars, apiLog, prComments, storeSeen>>
           ELSE /\ apiLog' = Append(apiLog, "listComments")
                /\ \/ \* the listing request is answered
                      /\ \E stored \in (IF storeSeen THEN {prComments}
                                        ELSE InitialStores(userList)) :
                            /\ prComments' = stored
                            /\ existingComments' = ListReviewComments(stored)
                      /\ storeSeen' = TRUE
                      /\ secrets' = parsed
                      /\ next' = 1
                      /\ Goto("posting")
                      /\ UNCHANGED <<attempts, created>>
                   \/ \* the listing request fails: nothing catches it
                      /\ Throw("listComments")
                      /\ UNCHANGED <<commentVars, prComments, storeSeen>>
    /\ UNCHANGED <<envVars, installVars, scanVars, report, rerun, first, fp, host>>

\* a loop whose postReviewComment does not catch: the first failed post
\* rejects postPullRequestComments
PostReviewCommentUncaught ==
    /\ pc = "posting"
    /\ LET comment == buildReviewComment(secrets.results[next], userList)
       IN  IF commentAlreadyExists(existingComments, comment)
           THEN /\ Goto(IF next = Len(secrets.results) THEN "summary" ELSE "posting")
                /\ UNCHANGED <<attempts, created, prComments>>
           ELSE \E ok \in BOOLEAN :
                   /\ attempts' = Append(attempts,
                          [index |-> next, comment |-> comment, ok |-> ok])
                   /\ created' = IF ok THEN Append(created, comment) ELSE created
                   /\ prComments' = IF ok
                                    THEN Append(prComments, StoredComment(comment))
                                    ELSE prComments
                   /\ IF ok
                      THEN Goto(IF next = Len(secrets.results) THEN "summary"
                                ELSE "posting")
                      ELSE Throw("createReviewComment")
    /\ next' = next + 1
    /\ UNCHANGED <<envVars, installVars, scanVars, secrets, existingComments,
                   apiLog, report, storeSeen, rerun, first, fp, host>>

\* one pass of the loop 481-487: buildReviewComment, commentAlreadyExists,
\* postReviewComment (which catches the failure of createReviewComment)
PostReviewComment ==
    /\ pc = "posting"
    /\ LET comment == buildReviewComment(secrets.results[next], userList)
       IN  IF commentAlreadyExists(existingComments, comment)
           THEN UNCHANGED <<attempts, created, prComments>>
           ELSE \E ok \in BOOLEAN :
                   /\ attempts' = Append(attempts,
                          [index |-> next, comment |-> comment, ok |-> ok])
                   /\ created' = IF ok THEN Append(created, comment) ELSE created
                   /\ prComments' = IF ok
                                    THEN Append(prComments, StoredComment(comment))
                                    ELSE prComments
    /\ next' = next + 1
    /\ Goto(IF next = Len(secrets.results) THEN "summary" ELSE "posting")
    /\ UNCHANGED <<envVars, installVars, scanVars, secrets, existingComments,
                   apiLog, report, storeSeen, rerun, first, fp, host>>

(***************************************************************************)
(* main.ts generateSummary and handleScanResult.                           *)
(***************************************************************************)
\* a writeSummary without the degraded heading: a table whatever was parsed
writeSummaryAlwaysTable(code, file) ==
    IF code = EXIT_CODE_SUCCESS THEN [kind |-> "clean", detail |-> 0]
    ELSE IF code = EXIT_CODE_LEAKS_DETECTED
         THEN [kind |-> "table", detail |-> Len(parseSarifResults(file).results)]
         ELSE [kind |-> "error", detail |-> code]

\* main.ts writeSummary: what is written for an exit code and a report
writeSummary(code, file) ==
    IF code = EXIT_CODE_SUCCESS THEN [kind |-> "clean", detail |-> 0]
    ELSE IF code = EXIT_CODE_LEAKS_DETECTED
         THEN LET parsed == parseSarifResults(file)
              IN  IF parsed.isNull \/ Len(parsed.results) = 0
                  THEN [kind |-> "noDetails", detail |-> 0]
                  ELSE [kind |-> "table", detail |-> Len(parsed.results)]
         ELSE [kind |-> "error", detail |-> code]

GenerateSummary ==
    /\ pc = "summary"
    /\ summary' = IF enableSummary THEN writeSummary(exitCode, report)
                  ELSE summary
    /\ steps' = Append(steps, <<"summary", IF enableSummary THEN "written"
                                           ELSE "disabled">>)
    /\ pc' = "handleScanResult"
    /\ UNCHANGED <<envVars, version, latestTag, searchPath, downloads,
                   scanVars, commentVars, apiLog, exitStatus, exitVia, thrown,
                   worldVars, fp, host>>

\* main.ts handleScanResult: return (the process then ends with status 0)
\* or process.exit
HandleScanResult ==
    /\ pc = "handleScanResult"
    /\ pc' = "exited"
    /\ exitStatus' = handleScanResult(exitCode)
    /\ exitVia' = "handleScanResult"
    /\ UNCHANGED <<envVars, installVars, scanVars, commentVars, apiLog,
                   summary, thrown, worldVars, fp, host>>

(***************************************************************************)
(* One run of the action.                                                  *)
(***************************************************************************)
Next ==
    \/ ValidateEventType
    \/ LoadEventData
    \/ ResolveGitleaksVersion
    \/ TryRestoreFromCache
    \/ DownloadBinary
    \/ ExtractArchive
    \/ TrySaveToCache
    \/ AddPath
    \/ PerformScanPush
    \/ PerformScanFull
    \/ ValidateGitHubToken
    \/ PullRequestScanRange
    \/ ExecGitleaks
    \/ UploadScanArtifact
    \/ PostPullRequestComments
    \/ PostReviewComment
    \/ GenerateSummary
    \/ HandleScanResult

Spec == Init /\ [][Next]_vars

(***************************************************************************)
(* Two runs on one pull request: the workflow run is started again on the  *)
(* same event (same payload, same environment, same commits) after the     *)
(* first run has ended through handleScanResult.  The review comments of   *)
(* the pull request are what the first run left.                           *)
(***************************************************************************)
Rerun ==
    /\ pc = "exited"
    /\ ~rerun
    /\ eventType = EVENT_PULL_REQUEST
    /\ exitVia = "handleScanResult"
    /\ rerun' = TRUE
    /\ first' = [listed |-> Count(apiLog, "listComments") > 0,
                 attempts |-> attempts,
                 created |-> created]
    \* a new process: RunStart
    /\ pc' = "validateEventType"
    /\ version' = <<>>
    /\ latestTag' = <<>>
    /\ searchPath' = <<>>
    /\ downloads' = 0
    /\ steps' = <<>>
    /\ scanInfo' = NoRefs
    /\ prCommits' = <<>>
    /\ engineArgs' = <<>>
    /\ engineCalls' = 0
    /\ logOpts' = NoLogOpts
    /\ exitCode' = -1
    /\ secrets' = Null
    /\ existingComments' = <<>>
    /\ next' = 0
    /\ attempts' = <<>>
    /\ created' = <<>>
    /\ apiLog' = <<>>
    /\ summary' = NoSummary
    /\ exitStatus' = -1
    /\ exitVia' = "running"
    /\ thrown' = "none"
    /\ UNCHANGED <<envVars, report, prComments, storeSeen, fp, host>>

\* the environment of the two-run specification: a pull-request event with
\* a token, the default engine version and no BASE_REF
EnvironmentRerun ==
    /\ Environment
    /\ eventType = EVENT_PULL_REQUEST
    /\ versionEnv = <<>>
    /\ baseRefEnv = ""
    /\ pullRequest.present
    /\ hasToken

InitRerun ==
    /\ Init
    /\ EnvironmentRerun

NextRerun ==
    \/ ValidateEventType
    \/ LoadEventData
    \/ ResolveGitleaksVersion
    \/ TryRestoreFromCache
    \/ DownloadBinary
    \/ ExtractArchive
    \/ TrySaveToCache
    \/ AddPath
    \/ ValidateGitHubToken
    \/ PullRequestScanRange
    \/ ExecGitleaks
    \/ UploadScanArtifact
    \/ PostPullRequestComments
    \/ PostReviewComment
    \/ GenerateSummary
    \/ HandleScanResult
    \/ Rerun

SpecRerun == InitRerun /\ [][NextRerun]_vars

(***************************************************************************)
(* buildSecretFingerprint on its own: two findings are drawn and           *)
(* fingerprinted.  Commit identifiers are hexadecimal and hold no ":";     *)
(* file paths and rule ids are any text, ":" included.                     *)
(***************************************************************************)
FingerprintInputs ==
    {Finding(rule, sha, path, line) :
        rule \in StringsUpTo({"x", ":"}, MaxFieldLen),
        sha \in {<<"a">>, <<"b">>},
        path \in StringsUpTo({"x", ":"}, MaxFieldLen),
        line \in {1, 12}}

InitFingerprint ==
    /\ Environment
    /\ eventType = EVENT_PUSH
    /\ versionEnv = <<>>
    /\ baseRefEnv = ""
    /\ enableSummary
    /\ enableUpload
    /\ pushCommits = <<>>
    /\ RunStart
    /\ report = NoReport
    /\ prComments = <<>>
    /\ storeSeen = FALSE
    /\ rerun = FALSE
    /\ first = NoFirst
    /\ fp \in [phase : {"drawn"}, a : FingerprintInputs, b : FingerprintInputs]
    /\ host = HostIdle

Fingerprint ==
    /\ fp.phase = "drawn"
    /\ fp' = [phase |-> "done", a |-> fp.a, b |-> fp.b,
              fa |-> buildSecretFingerprint(fp.a),
              fb |-> buildSecretFingerprint(fp.b)]
    /\ UNCHANGED <<envVars, pc, installVars, scanVars, commentVars, apiLog,
                   endVars, worldVars, host>>

NextFingerprint == Fingerprint

SpecFingerprint == InitFingerprint /\ [][NextFingerprint]_vars

(***************************************************************************)
(* Two runs on one host install the same version at the same time.  Both   *)
(* see the same temporary directory and the same cache service.  The       *)
(* network and the archive are sound here: a download or an extraction     *)
(* fails only through what the other run did to the host.                  *)
(***************************************************************************)
Procs == {1, 2}
InstallVersions == {DEFAULT_GITLEAKS_VERSION, <<"8.30.0">>}

\* scanner.ts buildCacheKey, on a linux x64 host
buildCacheKey(ver) ==
    <<"gitleaks-cache-">> \o ver \o <<"-", "linux", "-", "x64">>

\* everything of the run outside Install
outsideInstall == <<envVars, pc, installVars, scanVars, commentVars, apiLog,
                    endVars, worldVars, fp>>

InitInstall ==
    /\ Environment
    /\ eventType = EVENT_PUSH
    /\ versionEnv = <<>>
    /\ baseRefEnv = ""
    /\ enableSummary
    /\ enableUpload
    /\ pushCommits = <<>>
    /\ RunStart
    /\ report = NoReport
    /\ prComments = <<>>
    /\ storeSeen = FALSE
    /\ rerun = FALSE
    /\ first = NoFirst
    /\ fp = FpIdle
    /\ \E v \in InstallVersions : \E c \in {{}, {buildCacheKey(v)}} :
          host = [phase |-> "installing",
                  version |-> v,
                  ipc |-> [p \in Procs |-> "restoreCache"],
                  \* os.tmpdir()/gitleaks.tmp: absent, partial or complete
                  tmpFile |-> "absent",
                  \* getInstallPath(version): empty or complete
                  installDir |-> "empty",
                  \* keys the cache service holds
                  cache |-> c,
                  downloads |-> [p \in Procs |-> 0],
                  returned |-> [p \in Procs |-> <<>>]]

\* Install 191: tryRestoreFromCache; a hit restores the install directory
HostTryRestore(p) ==
    /\ host.phase = "installing"
    /\ host.ipc[p] = "restoreCache"
    /\ \E outcome \in {"hit", "miss", "error"} :
          /\ outcome = "hit" => buildCacheKey(host.version) \in host.cache
          /\ outcome = "miss" => buildCacheKey(host.version) \notin host.cache
          /\ host' = IF outcome = "hit"
                     THEN [host EXCEPT !.ipc[p] = "addPath",
                                       !.installDir = "complete"]
                     ELSE [host EXCEPT !.ipc[p] = "download"]
    /\ UNCHANGED outsideInstall

\* downloadAndInstallBinary 205-210: tc.downloadTool(releaseUrl,
\* os.tmpdir()/gitleaks.tmp) refuses a destination that exists; otherwise
\* it starts to write the file
HostDownloadStart(p) ==
    /\ host.phase = "installing"
    /\ host.ipc[p] = "download"
    /\ host' = IF host.tmpFile # "absent"
               THEN [host EXCEPT !.ipc[p] = "failed",
                                 !.downloads[p] = @ + 1]
               ELSE [host EXCEPT !.ipc[p] = "downloading",
                                 !.downloads[p] = @ + 1,
                                 !.tmpFile = "partial"]
    /\ UNCHANGED outsideInstall

\* the download completes
HostDownloadEnd(p) ==
    /\ host.phase = "installing"
    /\ host.ipc[p] = "downloading"
    /\ host' = [host EXCEPT !.ipc[p] = "extract", !.tmpFile = "complete"]
    /\ UNCHANGED outsideInstall

\* downloadAndInstallBinary 211: extractArchive into the install path
HostExtract(p) ==
    /\ host.phase = "installing"
    /\ host.ipc[p] = "extract"
    /\ host' = [host EXCEPT !.ipc[p] = "saveCache", !.installDir = "complete"]
    /\ UNCHANGED outsideInstall

\* downloadAndInstallBinary 212: trySaveToCache, its failure swallowed
HostSaveCache(p) ==
    /\ host.phase = "installing"
    /\ host.ipc[p] = "saveCache"
    /\ \E outcome \in {"ok", "error"} :
          host' = [host EXCEPT
                      !.ipc[p] = "addPath",
                      !.cache = IF outcome = "ok"
                                THEN @ \cup {buildCacheKey(host.version)}
                                ELSE @]
    /\ UNCHANGED outsideInstall

\* Install 199-200: core.addPath(installPath); return installPath
HostAddPath(p) ==
    /\ host.phase = "installing"
    /\ host.ipc[p] = "addPath"
    /\ host' = [host EXCEPT !.ipc[p] = "returned",
                            !.returned[p] = getInstallPath(host.version)]
    /\ UNCHANGED outsideInstall

NextInstall ==
    \E p \in Procs :
        \/ HostTryRestore(p)
        \/ HostDownloadStart(p)
        \/ HostDownloadEnd(p)
        \/ HostExtract(p)
        \/ HostSaveCache(p)
        \/ HostAddPath(p)

SpecInstall == InitInstall /\ [][NextInstall]_vars

(***************************************************************************)
(* Properties.                                                             *)
(***************************************************************************)
\* the run has ended in handleScanResult, i.e. performScan returned the
\* exit code of the engine
Mapped == pc = "exited" /\ exitVia = "handleScanResult"

\* C1: every engine exit code returned by the scan decides the exit status
\* by exactly one of three cases: 0 ends the process with status 0, 2 with
\* status 1, and every other code with that code unchanged.
C1_ExitCodeMappingTotal ==
    Mapped =>
        /\ exitCode \in EngineExitCodes
        /\ (exitCode = 0 => exitStatus = 0)
        /\ (exitCode = 2 => exitStatus = 1)
        /\ (exitCode \notin {0, 2} => exitStatus = exitCode)

C1_Witness == Mapped /\ exitCode = 3 /\ exitStatus = 3

\* C2 as claimed: the status of a leaksFound run is non-zero and no clean
\* or executionError run ends with it.
C2_LeaksStatusDistinct ==
    Mapped =>
        /\ (exitCode = 2 => exitStatus # 0)
        /\ (exitCode # 2 => exitStatus # 1)

\* C2 amended: the status of a leaksFound run is 1; it is non-zero, no
\* clean run and no executionError run with an engine exit code other than
\* 1 ends with it, and an engine exit code 1 ends the run with that same
\* status 1.
C2_LeaksStatusDistinctExceptOne ==
    Mapped =>
        /\ (exitCode = 2 => exitStatus = 1)
        /\ (exitCode \notin {1, 2} => exitStatus # 1)
        /\ (exitCode = 1 => exitStatus = 1)

C2_Witness == Mapped /\ exitCode = 1 /\ exitStatus = 1 /\ engineCalls = 1

\* the fingerprints of the two drawn findings have been computed
Fingerprinted == fp.phase = "done"

HasColon(str) == \E i \in 1..Len(str) : str[i] = ":"

\* C3 as claimed: two findings that differ in commitSha, filePath, ruleId
\* or startLine have different fingerprints.
C3_FingerprintInjective ==
    (Fingerprinted /\ fp.a # fp.b) => fp.fa # fp.fb

\* C3 amended: two findings that differ in commitSha, filePath, ruleId or
\* startLine have different fingerprints provided neither ruleId holds the
\* separator ":" (the commitSha being hexadecimal); with ":" in ruleId and
\* filePath two different findings can share a fingerprint.
C3_FingerprintInjectiveColonFreeRule ==
    (Fingerprinted /\ fp.a # fp.b
        /\ ~HasColon(fp.a.ruleId) /\ ~HasColon(fp.b.ruleId))
    => fp.fa # fp.fb

C3_Witness ==
    /\ Fingerprinted
    /\ fp.a.ruleId = fp.b.ruleId /\ ~HasColon(fp.a.ruleId)
    /\ fp.a.commitSha = fp.b.commitSha
    /\ fp.a.startLine = fp.b.startLine
    /\ HasColon(fp.a.filePath) /\ ~HasColon(fp.b.filePath)
    /\ fp.fa # fp.fb

\* the run is on a push event whose commit list is empty or absent
EmptyPush == eventType = EVENT_PUSH /\ Len(pushCommits) = 0

\* C6 as claimed: a run on a push event with an empty commit list (the
\* event file having been read) ends with status 0 and never invokes the
\* engine.
C6_EmptyPushEndsClean ==
    EmptyPush =>
        /\ engineCalls = 0
        /\ (pc = "exited" /\ exitVia # "loadEventData" => exitStatus = 0)

\* C6 amended: a run on a push event with an empty commit list never
\* invokes the engine; it ends with status 0, in buildPushScanInfo, when
\* the event file was read and version resolution and Install succeeded,
\* and with status 1 when one of these failed first.
C6_EmptyPushNoEngine ==
    EmptyPush =>
        /\ engineCalls = 0
        /\ (pc = "exited" =>
               IF searchPath # <<>>
               THEN exitVia = "buildPushScanInfo" /\ exitStatus = 0
               ELSE exitVia \in {"loadEventData", "catch"} /\ exitStatus = 1)

C6_Witness ==
    /\ EmptyPush
    /\ pc = "exited"
    /\ downloads = 1
    /\ exitStatus = 0
    /\ engineCalls = 0

\* a log-range expression the engine can use: the single-commit
\* expression, or a range from the parent of one commit to another commit
RangeExpression(base, head) ==
    <<"--no-merges --first-parent ", base, "^..", head>>
WellFormedLogRange(expr) ==
    \/ expr = <<"-1">>
    \/ \E base \in Commits, head \in Commits : expr = RangeExpression(base, head)

\* C7: on push and pull-request triggers equal refs give the single-commit
\* expression "-1", and whatever log-range expression the engine is given
\* is that expression or a range between two commit identifiers, never
\* empty or malformed.
C7_LogRangeWellFormed ==
    engineCalls > 0 =>
        /\ eventType \in {EVENT_PUSH, EVENT_PULL_REQUEST} =>
              /\ logOpts.present
              /\ (scanInfo.baseRef = scanInfo.headRef
                     => logOpts.expr = <<"-1">>)
              /\ (scanInfo.baseRef # scanInfo.headRef
                     => logOpts.expr = RangeExpression(scanInfo.baseRef,
                                                       scanInfo.headRef))
        /\ logOpts.present =>
              /\ logOpts.expr # <<>>
              /\ WellFormedLogRange(logOpts.expr)

C7_Witness ==
    /\ engineCalls = 1
    /\ eventType = EVENT_PULL_REQUEST
    /\ baseRefEnv = "c2"
    /\ scanInfo.baseRef = scanInfo.headRef
    /\ logOpts.expr = <<"-1">>

\* the version has been resolved and handed to Install
VersionResolved ==
    pc \in {"restoreCache", "download", "extract", "saveCache", "addPath"}
        \/ searchPath # <<>>

LatestLookups == Count(apiLog, "getLatestRelease")

\* C9: the latest-release lookup is made at most once per run and only for
\* the configured version "latest"; the version installed is then the tag
\* without its leading "v" (v8.30.0 gives 8.30.0); any other configured
\* version is installed as it is, without a lookup.
C9_LatestLookup ==
    /\ LatestLookups <= 1
    /\ LatestLookups = 1 => versionEnv = <<"latest">>
    /\ VersionResolved =>
          IF versionEnv = <<"latest">>
          THEN /\ LatestLookups = 1
               /\ \/ latestTag = <<"v">> \o version
                  \/ Head(latestTag) # "v" /\ latestTag = version
               /\ latestTag = <<"v", "8.30.0">> => version = <<"8.30.0">>
          ELSE /\ LatestLookups = 0
               /\ version = IF versionEnv = <<>> THEN <<"8.24.3">>
                            ELSE versionEnv
    /\ searchPath # <<>> => searchPath = <<getInstallPath(version)>>

C9_Witness ==
    /\ versionEnv = <<"latest">>
    /\ latestTag = <<"v", "8.30.0">>
    /\ searchPath = <<<<"tmpdir/gitleaks-", "8.30.0">>>>
    /\ LatestLookups = 1

\* postPullRequestComments has parsed the report and fetched the existing
\* comments: the loop over the results has been entered
LoopEntered == ~secrets.isNull
LoopDone == LoopEntered /\ next = Len(secrets.results) + 1

\* the comment of the i-th result of the report
CommentOf(i) == buildReviewComment(report.results[i], userList)
\* createReviewComment has been called for the i-th result
Attempted(i) == \E k \in 1..Len(attempts) : attempts[k].index = i
\* the review comments of the pull request when the run listed them
StoreAtFetch == SubSeq(prComments, 1, Len(prComments) - Len(created))
\* a listed comment with the body, path and line of the proposed one
Matches(listed, proposed) ==
    /\ listed.body = proposed.body
    /\ listed.path = proposed.path
    /\ listed.original_line = proposed.line
MatchedIn(comments, proposed) ==
    \E j \in 1..Len(comments) : Matches(comments[j], proposed)

\* C4 as claimed: when the reporter has processed the same report in two
\* runs and the comments the first run created are among the existing
\* comments the second run fetched, the second run creates no comment.
C4_SecondRunCreatesNothing ==
    (/\ rerun /\ first.listed /\ LoopDone
     /\ \A k \in 1..Len(first.created) :
           MatchedIn(existingComments, first.created[k]))
    => created = <<>>

\* C4 amended: when the reporter has processed the same report in two
\* runs, every post of the first run succeeded and the comments the first
\* run created are among the existing comments the second run fetched, the
\* second run creates no comment; a finding whose post failed in the first
\* run is posted again by the second.
C4_SecondRunCreatesNothingAfterSuccess ==
    (/\ rerun /\ first.listed /\ LoopDone
     /\ \A k \in 1..Len(first.attempts) : first.attempts[k].ok
     /\ \A k \in 1..Len(first.created) :
           MatchedIn(existingComments, first.created[k]))
    => created = <<>>

C4_Witness ==
    /\ rerun /\ first.listed /\ LoopDone
    /\ Len(first.created) = 1
    /\ Len(first.attempts) = 1
    /\ MatchedIn(existingComments, first.created[1])
    /\ pc = "exited"
    /\ attempts = <<>>
    /\ created = <<>>

\* C5: the existing review comments of the pull request are all fetched
\* before posting, and a post is made for a finding if and only if no
\* existing comment has the body, path and line of the finding's comment.
C5_PostedIffNoExistingMatch ==
    LoopEntered =>
        /\ existingComments = StoreAtFetch
        /\ \A i \in 1..(next - 1) :
              Attempted(i) <=> ~MatchedIn(StoreAtFetch, CommentOf(i))

\* the fingerprint the comment of a pool finding has to carry
ExpectedFingerprint(f) ==
    f.commitSha \o <<":">> \o f.filePath \o <<":">> \o f.ruleId \o <<":">>
        \o (IF f.startLine = 12 THEN <<"1", "2">> ELSE <<"3">>)
Carries(body, piece) ==
    \E i \in 0..(Len(body) - Len(piece)) :
        SubSeq(body, i + 1, i + Len(piece)) = piece

\* C8: a pull-request run with comments enabled whose engine exits with 2
\* and leaves a report of n findings, none matched by an existing comment,
\* all posts succeeding, creates exactly n comments, the i-th on the file,
\* line and commit of the i-th finding, on side RIGHT, with the finding's
\* fingerprint in its body, and ends with status 1.
C8_OneCommentPerFinding ==
    (/\ eventType = EVENT_PULL_REQUEST
     /\ commentsEnabled
     /\ engineCalls = 1
     /\ exitCode = 2
     /\ report.kind = "results"
     /\ pc = "exited"
     /\ \A i \in 1..Len(report.results) : ~MatchedIn(StoreAtFetch, CommentOf(i))
     /\ \A k \in 1..Len(attempts) : attempts[k].ok)
    =>
        /\ Len(created) = Len(report.results)
        /\ \A i \in 1..Len(created) :
              /\ created[i].path = report.results[i].filePath
              /\ created[i].line = report.results[i].startLine
              /\ created[i].commit_id = report.results[i].commitSha
              /\ created[i].side = "RIGHT"
              /\ Carries(created[i].body,
                         ExpectedFingerprint(report.results[i]))
        /\ exitStatus = 1

\* C10: the results are processed in report order; for every result that
\* is not a duplicate a post is attempted, whatever happened to earlier
\* posts; and a run that attempted posts keeps the exit code 2 of the scan
\* and ends, through handleScanResult, with status 1.
C10_PostFailuresDoNotBlock ==
    /\ LoopEntered =>
          /\ secrets.results = report.results
          /\ \A i \in 1..(next - 1) :
                Attempted(i) <=> ~MatchedIn(existingComments, CommentOf(i))
          /\ \A k \in 1..Len(attempts) :
                /\ attempts[k].comment = CommentOf(attempts[k].index)
                /\ \A l \in 1..Len(attempts) :
                      k < l => attempts[k].index < attempts[l].index
    /\ attempts # <<>> =>
          /\ exitCode = 2
          /\ pc = "exited" => exitVia = "handleScanResult" /\ exitStatus = 1

C10_Witness ==
    /\ pc = "exited"
    /\ Len(attempts) = 2
    /\ ~attempts[1].ok
    /\ attempts[2].ok
    /\ Len(created) = 1
    /\ exitStatus = 1

\* the step has been taken with the outcome, at some point of the run
Has(step, outcome) ==
    \E i \in 1..Len(steps) : steps[i] = <<step, outcome>>
\* the run has ended through handleScanResult, after generateSummary
EndedThroughMapping == pc = "exited" /\ exitVia = "handleScanResult"

\* C11: when artifact upload is enabled and the upload fails, the failure
\* does not end the run: the run goes on and ends through the exit-code
\* mapping of the engine's exit code, after the summary when it is enabled.
C11_UploadFailureNotFatal ==
    Has("upload", "error") =>
        /\ thrown # "uploadArtifact"
        /\ pc = "exited" =>
              /\ EndedThroughMapping
              /\ exitStatus = (IF exitCode = 2 THEN 1 ELSE exitCode)
              /\ enableSummary => summary # NoSummary

\* the failures the run is to recover from
CacheFailed == Has("restoreCache", "error") \/ Has("saveCache", "error")
ReportParseFailed ==
    exitCode = EXIT_CODE_LEAKS_DETECTED /\ report.kind # "results"
CommentCallFailed ==
    \/ thrown = "listComments"
    \/ \E k \in 1..Len(attempts) : ~attempts[k].ok
EngineFailed == engineCalls > 0 /\ exitCode \notin {0, 2}
\* the failures that are to end the run
ConfigurationError == exitVia \in {"validateEventType", "validateGitHubToken"}
AcquisitionError == thrown \in {"downloadBinary", "extractArchive"}

\* C12: with the summary enabled, a run that has hit a cache failure, a
\* report parse error, a failed comment API call, a failed upload or an
\* engine error, and neither a configuration nor an acquisition error (nor
\* a failed release or commit lookup), has written a summary when it ends.
C12_SummaryUnlessFatal ==
    (/\ pc = "exited"
     /\ enableSummary
     /\ \/ CacheFailed
        \/ ReportParseFailed
        \/ CommentCallFailed
        \/ Has("upload", "error")
        \/ EngineFailed
     /\ ~ConfigurationError
     /\ ~AcquisitionError
     /\ thrown \notin {"getLatestRelease", "listCommits"}
     /\ exitVia # "buildPushScanInfo")
    => summary # NoSummary

\* C13: a review-comment API call, listing or creating, is made only in a
\* pull-request run with commenting enabled whose engine exit code is 2.
C13_CommentingGated ==
    (Count(apiLog, "listComments") > 0 \/ attempts # <<>>) =>
        /\ eventType = "pull_request"
        /\ commentsEnabled
        /\ exitCode = 2

C13_Witness ==
    /\ pc = "exited"
    /\ Count(apiLog, "listComments") = 1
    /\ Len(attempts) = 1
    /\ commentsEnabled
    /\ exitCode = 2

\* ScanPullRequest has resolved the range of a pull-request run
PullRequestRangeResolved ==
    eventType = "pull_request" /\ scanInfo # NoRefs
CommitsFetched == Count(apiLog, "listCommits") > 0

\* C14: in a pull-request run, with an override the commit list is fetched,
\* baseRef is the override and headRef the last commit of the pull
\* request; else with base and head in the payload these are the refs and
\* the list is not fetched; else the list is fetched and the refs are the
\* first and the last commit of the pull request.
C14_PullRequestRange ==
    PullRequestRangeResolved =>
        IF baseRefEnv # ""
        THEN /\ CommitsFetched
             /\ scanInfo.baseRef = baseRefEnv
             /\ scanInfo.headRef = prCommits[Len(prCommits)]
        ELSE IF pullRequest.present
             THEN /\ ~CommitsFetched
                  /\ scanInfo.baseRef = pullRequest.base
                  /\ scanInfo.headRef = pullRequest.head
             ELSE /\ CommitsFetched
                  /\ scanInfo.baseRef = prCommits[1]
                  /\ scanInfo.headRef = prCommits[Len(prCommits)]

\* C15 as claimed: in push, manual and scheduled runs that reach the engine
\* baseRef is the override when one is supplied, else the first commit of
\* the push list, and headRef is the last commit of the push list.
C15_RangeOfPushManualScheduled ==
    (/\ eventType \in {"push", "workflow_dispatch", "schedule"}
     /\ engineCalls > 0)
    =>
        /\ baseRefEnv # "" => scanInfo.baseRef = baseRefEnv
        /\ baseRefEnv = "" /\ pushCommits # <<>> =>
              scanInfo.baseRef = pushCommits[1]
        /\ pushCommits # <<>> =>
              scanInfo.headRef = pushCommits[Len(pushCommits)]

\* C15 amended: in a push run that reaches the engine baseRef is the
\* override when one is supplied, else the first commit of the push list,
\* and headRef is the last commit of the push list; manual and scheduled
\* runs resolve no range, whatever the override.
C15_RangeOfPush ==
    engineCalls > 0 =>
        /\ eventType = "push" =>
              /\ pushCommits # <<>>
              /\ scanInfo.baseRef = (IF baseRefEnv # "" THEN baseRefEnv
                                     ELSE pushCommits[1])
              /\ scanInfo.headRef = pushCommits[Len(pushCommits)]
        /\ eventType \in {"workflow_dispatch", "schedule"} =>
              /\ scanInfo.baseRef = "undefined"
              /\ scanInfo.headRef = "undefined"

C15_Witness ==
    /\ eventType = "push"
    /\ engineCalls = 1
    /\ baseRefEnv = "c2"
    /\ pushCommits = <<"c1", "c2">>
    /\ scanInfo.baseRef = "c2"
    /\ scanInfo.headRef = "c2"

\* the command line holds a log-range flag
HasLogRangeFlag(args) ==
    \E i \in 1..Len(args) : args[i][1] = "--log-opts="
\* the command line starts with the command and the fixed flags
StartsWithFixedArgs(args) ==
    /\ Len(args) >= 7
    /\ SubSeq(args, 1, 7) =
          <<<<"detect">>, <<"--redact">>, <<"-v">>, <<"--exit-code=", "2">>,
            <<"--report-format=", "sarif">>,
            <<"--report-path=", "results.sarif">>, <<"--log-level=", "debug">>>>

\* C16: the command line of the engine holds a log-range flag if and only
\* if the trigger is push or pull_request; manual and scheduled runs invoke
\* the engine with the fixed flags alone, whatever the base-ref override.
C16_LogRangeFlagByTrigger ==
    engineCalls > 0 =>
        /\ StartsWithFixedArgs(engineArgs)
        /\ HasLogRangeFlag(engineArgs) <=>
              eventType \in {"push", "pull_request"}
        /\ eventType \in {"workflow_dispatch", "schedule"} =>
              Len(engineArgs) = 7

C16_Witness ==
    /\ eventType = "workflow_dispatch"
    /\ baseRefEnv = "c2"
    /\ engineCalls = 1
    /\ Len(engineArgs) = 7
    /\ ~HasLogRangeFlag(engineArgs)

\* the steps of Install among the steps of the run
IsInstallStep(step) == step[1] \notin {"upload", "summary"}
InstallSteps == SelectSeq(steps, IsInstallStep)
\* Install has returned its path to run()
InstallReturned == Has("addPath", "ok")

\* C17: a failed cache restore counts as a miss and is followed by a
\* download; a failed cache save after download and extraction is followed
\* by the return of Install; neither failure ends the run, which after
\* Install is at performScan or beyond.
C17_CacheFailuresRecovered ==
    /\ \A i \in 1..Len(steps) :
          /\ steps[i] = <<"restoreCache", "error">> =>
                IF i = Len(steps) THEN pc = "download"
                ELSE steps[i + 1][1] = "download"
          /\ steps[i] = <<"saveCache", "error">> =>
                /\ i > 2
                /\ steps[i - 2] = <<"download", "ok">>
                /\ steps[i - 1] = <<"extract", "ok">>
                /\ IF i = Len(steps) THEN pc = "addPath"
                   ELSE steps[i + 1] = <<"addPath", "ok">>
    /\ CacheFailed /\ pc = "exited" =>
          thrown \in {"none", "downloadBinary", "extractArchive",
                      "listCommits", "uploadArtifact", "listComments"}
    /\ CacheFailed /\ InstallReturned =>
          /\ pc \notin {"validateEventType", "loadEventData", "resolveVersion",
                        "restoreCache", "download", "extract", "saveCache",
                        "addPath"}
          /\ thrown \notin {"downloadBinary", "extractArchive"}

C17_Witness ==
    /\ Has("restoreCache", "error")
    /\ Has("saveCache", "error")
    /\ InstallReturned
    /\ engineCalls = 1
    /\ EndedThroughMapping

\* the step sequences of an Install that returns
CompleteInstalls ==
    {<<<<"restoreCache", "hit">>, <<"addPath", "ok">>>>}
        \cup {<<<<"restoreCache", r>>, <<"download", "ok">>,
                <<"extract", "ok">>, <<"saveCache", sv>>, <<"addPath", "ok">>>> :
                 r \in {"miss", "error"}, sv \in {"ok", "error"}}
\* the step sequences of an Install that throws
FailedInstalls ==
    {<<<<"restoreCache", r>>, <<"download", "error">>>> :
        r \in {"miss", "error"}}
        \cup {<<<<"restoreCache", r>>, <<"download", "ok">>,
                <<"extract", "error">>>> : r \in {"miss", "error"}}
IsPrefix(short, long) ==
    Len(short) <= Len(long) /\ SubSeq(long, 1, Len(short)) = short

\* C18: Install downloads if and only if the cache restore did not hit; on
\* a miss its steps are download, extract, cache save, in that order; and
\* when it has returned, the install path, built from the version alone,
\* is on the search path.
C18_InstallOrder ==
    /\ \E run \in CompleteInstalls \cup FailedInstalls :
          IsPrefix(InstallSteps, run)
    /\ downloads = Cardinality({i \in 1..Len(steps) : steps[i][1] = "download"})
    /\ InstallReturned =>
          /\ InstallSteps \in CompleteInstalls
          /\ downloads = (IF Has("restoreCache", "hit") THEN 0 ELSE 1)
          /\ searchPath = <<<<"tmpdir/gitleaks-">> \o version>>
    /\ ~InstallReturned => searchPath = <<>>

C18_Witness ==
    /\ InstallSteps = <<<<"restoreCache", "miss">>, <<"download", "ok">>,
                       <<"extract", "ok">>, <<"saveCache", "ok">>,
                       <<"addPath", "ok">>>>
    /\ versionEnv = <<"latest">>
    /\ version = <<"8.30.0">>
    /\ searchPath = <<<<"tmpdir/gitleaks-", "8.30.0">>>>
    /\ downloads = 1

\* C19: after a failed download or a failed extraction the run has ended
\* with status 1, with one download attempt, no cache save, no engine
\* invocation and no summary.
C19_AcquisitionFailureFatal ==
    (Has("download", "error") \/ Has("extract", "error")) =>
        /\ pc = "exited"
        /\ exitStatus = 1
        /\ exitVia = "catch"
        /\ thrown \in {"downloadBinary", "extractArchive"}
        /\ downloads = 1
        /\ Cardinality({i \in 1..Len(steps) : steps[i][1] = "download"}) = 1
        /\ ~Has("saveCache", "ok") /\ ~Has("saveCache", "error")
        /\ ~InstallReturned
        /\ engineCalls = 0
        /\ summary = NoSummary

C19_Witness ==
    /\ Has("extract", "error")
    /\ enableSummary
    /\ pc = "exited"
    /\ exitStatus = 1

\* C20: with an unsupported trigger the run exits with status 1 before
\* version resolution, installation, engine invocation and summary; a
\* pull-request run without a token exits with status 1 before the engine
\* is invoked and before any request for commits or comments.
C20_ConfigurationErrorAborts ==
    /\ eventType \notin {"push", "pull_request", "workflow_dispatch",
                         "schedule"} =>
          /\ pc \in {"validateEventType", "exited"}
          /\ pc = "exited" => exitStatus = 1 /\ exitVia = "validateEventType"
          /\ version = <<>>
          /\ steps = <<>>
          /\ apiLog = <<>>
          /\ engineCalls = 0
          /\ summary = NoSummary
    /\ eventType = "pull_request" /\ ~hasToken =>
          /\ pc = "exited" => exitStatus = 1
          /\ pc \notin {"scanRange", "exec", "upload", "comments", "posting",
                        "summary", "handleScanResult"}
          /\ engineCalls = 0
          /\ Count(apiLog, "listCommits") = 0
          /\ Count(apiLog, "listComments") = 0
          /\ attempts = <<>>
          /\ summary = NoSummary

C20_Witness ==
    /\ eventType = "pull_request"
    /\ ~hasToken
    /\ InstallReturned
    /\ pc = "exited"
    /\ exitVia = "validateGitHubToken"
    /\ exitStatus = 1

\* C21: when the engine exits with 2 and the report is missing, is not
\* valid JSON or lacks runs[0].results, the run that has ended has listed
\* and posted no review comment, has written (when the summary is enabled)
\* the degraded heading, and has ended through the exit-code mapping with
\* status 1.
C21_ParseErrorRecovered ==
    (/\ pc = "exited"
     /\ engineCalls > 0
     /\ exitCode = 2
     /\ report.kind \in {"missing", "invalidJson", "noRuns", "noResults"})
    =>
        /\ Count(apiLog, "listComments") = 0
        /\ attempts = <<>>
        /\ enableSummary => summary = [kind |-> "noDetails", detail |-> 0]
        /\ exitVia = "handleScanResult"
        /\ exitStatus = 1

\* the summary an exit code and a report call for
ExpectedSummary ==
    IF exitCode = 0 THEN [kind |-> "clean", detail |-> 0]
    ELSE IF exitCode = 2
         THEN IF report.kind = "results" /\ Len(report.results) > 0
              THEN [kind |-> "table", detail |-> Len(report.results)]
              ELSE [kind |-> "noDetails", detail |-> 0]
         ELSE [kind |-> "error", detail |-> exitCode]
SummaryWrites ==
    Cardinality({i \in 1..Len(steps) : steps[i] = <<"summary", "written">>})

\* C22 as claimed: a run that has ended has written nothing with the flag
\* off and, with the flag on, exactly one summary: the clean heading for
\* exit code 0, for exit code 2 a table with one row per finding or the
\* degraded heading, an error heading with the code for any other code.
C22_OneSummaryPerRun ==
    pc = "exited" =>
        IF enableSummary
        THEN /\ SummaryWrites = 1
             /\ summary = ExpectedSummary
        ELSE /\ SummaryWrites = 0
             /\ summary = NoSummary

\* C22 amended: a run writes at most one summary; a run that has passed
\* generateSummary has written nothing with the flag off and, with the
\* flag on, exactly one summary, the one its exit code and report call
\* for; a run that ended before generateSummary has written nothing.
C22_OneSummaryPerCompletedRun ==
    /\ SummaryWrites <= 1
    /\ IF pc \in {"handleScanResult", "exited"} /\ thrown = "none"
          /\ exitVia \in {"running", "handleScanResult"}
       THEN IF enableSummary
            THEN /\ SummaryWrites = 1
                 /\ summary = ExpectedSummary
            ELSE /\ SummaryWrites = 0
                 /\ summary = NoSummary
       ELSE /\ SummaryWrites = 0
            /\ summary = NoSummary

C22_Witness ==
    /\ EndedThroughMapping
    /\ enableSummary
    /\ exitCode = 2
    /\ summary = [kind |-> "table", detail |-> 2]
    /\ Len(report.results) = 2

\* C23: the engine is invoked at most once, and only after Install has
\* returned; review comments are listed and posted and the summary step is
\* taken only after the engine has returned its exit code; the exit-code
\* mapping is applied only after the summary step, which is then the last
\* step of the run.
C23_RunOrder ==
    /\ engineCalls <= 1
    /\ engineCalls > 0 => InstallReturned /\ exitCode # -1
    /\ exitCode # -1 => engineCalls = 1
    /\ (\/ Count(apiLog, "listComments") > 0
        \/ attempts # <<>>
        \/ Has("summary", "written")
        \/ Has("summary", "disabled")
        \/ summary # NoSummary) =>
          /\ engineCalls = 1
          /\ exitCode # -1
          /\ pc \notin {"exec", "upload"}
    /\ (pc = "handleScanResult" \/ exitVia = "handleScanResult") =>
          /\ steps # <<>>
          /\ steps[Len(steps)][1] = "summary"
          /\ pc \notin {"comments", "posting"}

C23_Witness ==
    /\ EndedThroughMapping
    /\ eventType = "pull_request"
    /\ InstallReturned
    /\ engineCalls = 1
    /\ Len(attempts) = 2
    /\ Has("summary", "written")

\* C25: no two review comments created by one run have the same body, path
\* and line.
C25_NoDuplicateCreated ==
    \A i \in 1..Len(created) : \A j \in 1..Len(created) :
        i < j =>
            ~(/\ created[i].body = created[j].body
              /\ created[i].path = created[j].path
              /\ created[i].line = created[j].line)

\* C24: of two runs that install the same version on one host at the same
\* time neither Install fails, both return the same install path once they
\* have returned, and no run downloads more than once.
C24_ConcurrentInstallsSucceed ==
    /\ \A p \in {1, 2} : host.ipc[p] # "failed"
    /\ \A p \in {1, 2} : host.downloads[p] <= 1
    /\ (host.ipc[1] = "returned" /\ host.ipc[2] = "returned") =>
          /\ host.returned[1] = host.returned[2]
          /\ host.returned[1] = <<"tmpdir/gitleaks-">> \o host.version
          /\ host.installDir = "complete"

====
